---------------------------- MODULE Spec2Model ----------------------------
(***************************************************************************)
(* The merge command of mempool-archiver: cmd/merge/transactions.go        *)
(* (mergeTransactions, updateInclusionStatus, TxUpdateWorker) and the CSV  *)
(* loaders of common/types.go (LoadTransactionCSVFiles, parseTx,           *)
(* LoadTxHashesFromMetadataCSVFiles).                                      *)
(*                                                                         *)
(* Strings are kept as strings; conversions on them (strings.ToLower,      *)
(* strconv.Atoi, the RLP decoding) are tables over the strings the model   *)
(* uses.  A map is a function whose DOMAIN is the set of its keys; a       *)
(* pointer to a map entry is the entry's key.                              *)
(***************************************************************************)
EXTENDS Integers, Sequences, FiniteSets, Bags, TLC

(***************************************************************************)
(* Bounds of the model.                                                    *)
(***************************************************************************)
MaxFiles == 2
MaxKnownFiles == 2
MaxLines == 3
MaxWorkers == 2
MaxTxs == 3
MaxNodes == 2
\* the capacity of the inbound channel, make(chan, 2000000), scaled down
TxCCap == 1

VARIABLES
    pc,             \* where the running command is
    knownTxsFiles,  \* --tx-blacklist: the already-known metadata CSV files
    inputFiles,     \* the input transaction CSV files (their state on disk)
    sourcelog,      \* [hash][source] = timestampMs, as LoadSourcelogFiles returned it
    workers,        \* numRPCWorkers
    writeTxCSV,     \* --write-tx-csv
    prevKnownTxs,   \* LoadTransactionCSVFiles: the loaded blacklist
    fileIdx,        \* LoadTransactionCSVFiles: index of the file being read
    reading,        \* LoadTransactionCSVFiles: a file is open
    nRead,          \* lines read so far (bounded by MaxLines)
    txs,            \* the transaction map: key -> entry
    loadFault,      \* history: a file failed to open or a timestamp failed to parse
    carried,        \* history: key -> timestamps of all parsed lines carrying it
    counted,        \* history: key -> timestamps of the lines read once the key was stored
    updatedBy,      \* history: key -> the workers that ran UpdateInclusionStatus on it
    signalled,      \* history: key -> completion signals the driver received for it
    srcDone,        \* source assignment: keys already handled
    toSend,         \* updateInclusionStatus: keys not yet enqueued
    txC,            \* the inbound channel's buffer
    wpc,            \* worker -> where it is
    wtx,            \* worker -> the entry it holds
    werr,           \* worker -> the error it is about to send
    nResp,          \* updateInclusionStatus: responses read so far
    txsSlice,       \* the slice being sorted and written
    wIdx,           \* write loop: next index of txsSlice
    created,        \* output files created so far
    parquet,        \* rows handed to the parquet writer
    csvMeta,        \* rows written to the metadata CSV
    csvTxs,         \* rows written to the transactions CSV
    analyzer,       \* the Analyzer2 a (its counters; its opts are txs and sourcelog)
    aTodo,          \* Analyzer2.init: entries the range loop has still to visit
    src,            \* latencyComp: the source tag of the pair
    ref,            \* latencyComp: the reference tag of the pair
    txHashes,       \* latencyComp: [txHash][source] = timestampMs
    lcTodo,         \* latencyComp: keys the current range loop has still to visit
    srcH,           \* latencyComp: the source-first histogram (bag of counts indexes)
    refH,           \* latencyComp: the reference-first histogram
    totalSeenByBoth, \* latencyComp: the third result
    opts,           \* collector.Start: the CollectorOpts
    processors,     \* collector.Start: the TxProcessors started, by their txC
    nodeIdx,        \* collector.Start: index into opts.Nodes
    connectors      \* collector.Start: the connections started, in order

cfgVars == <<knownTxsFiles, inputFiles, sourcelog, workers, writeTxCSV>>
loadVars == <<prevKnownTxs, fileIdx, reading, nRead, loadFault>>
histVars == <<carried, counted, updatedBy, signalled>>
annVars == <<toSend, txC, wpc, wtx, werr, nResp>>
outVars == <<txsSlice, wIdx, created, parquet, csvMeta, csvTxs>>
lcVars == <<src, ref, txHashes, lcTodo, srcH, refH, totalSeenByBoth>>
anaVars == <<analyzer, aTodo, lcVars>>
mergeVars == <<cfgVars, loadVars, histVars, srcDone, annVars, outVars>>
colVars == <<opts, processors, nodeIdx, connectors>>
vars == <<pc, cfgVars, loadVars, histVars, txs, srcDone, annVars, outVars, anaVars, colVars>>

(***************************************************************************)
(* Strings of the model.                                                   *)
(***************************************************************************)
HashCols == {"0xAA", "0xaa", "0xbb"}
KeyPool == <<"0xaa", "0xbb", "0xcc", "0xdd", "0xee">>
Keys == {KeyPool[i] : i \in 1..MaxTxs}
TsStrs == {"12999", "13000", "13001"}
Raws == {"bad", "R1", "R2"}
Sources == {"A", "B", "C"}

\* strings.ToLower
ToLower(s) ==
    CASE s = "0xAA" -> "0xaa"
      [] s = "0xBB" -> "0xbb"
      [] OTHER -> s

\* strconv.Atoi: [ok, val]
Atoi(s) ==
    CASE s = "12998" -> [ok |-> TRUE, val |-> 12998]
      [] s = "12999" -> [ok |-> TRUE, val |-> 12999]
      [] s = "13000" -> [ok |-> TRUE, val |-> 13000]
      [] s = "13001" -> [ok |-> TRUE, val |-> 13001]
      [] OTHER -> [ok |-> FALSE, val |-> 0]

\* common.RLPStringToTx followed by tx.Hash().Hex(): the payload decodes or not,
\* and a decoded transaction's hash is a function of the payload alone.
RawPool == <<"R1", "R2", "R3", "R4", "R5">>
RLPStringToTx(rawTx) ==
    IF \E i \in 1..Len(RawPool) : RawPool[i] = rawTx
    THEN [ok |-> TRUE, hash |-> KeyPool[CHOOSE i \in 1..Len(RawPool) : RawPool[i] = rawTx]]
    ELSE [ok |-> FALSE, hash |-> ""]

Min(S) == CHOOSE x \in S : \A y \in S : x <= y

SeqsUpTo(S, n) == UNION {[1..m -> S] : m \in 0..n}

(***************************************************************************)
(* LoadTxHashesFromMetadataCSVFiles                                        *)
(***************************************************************************)
KMissing == [status |-> "missing", records |-> <<>>]
KFileA == [status |-> "ok", records |-> << <<"12999", "0xAA", "1">> >>]
KRagged == [status |-> "ok", records |-> << <<"x">>, <<"12999", "0xaa">> >>]
KShort == [status |-> "ok", records |-> << <<"0xbb">> >>]
KnownFileSet == {KMissing, KFileA, KRagged, KShort}

\* csv.Reader.ReadAll with the default FieldsPerRecord: every record must have
\* as many fields as the first
CsvReadAllOk(records) == \A i \in 1..Len(records) : Len(records[i]) = Len(records[1])

\* the hashes one readable file contributes: column index 1 of every record with
\* at least two fields, lowercased
KnownHashesOfRecords(records) ==
    {ToLower(records[i][2]) : i \in {j \in 1..Len(records) : Len(records[j]) >= 2}}

RECURSIVE LoadKnownFrom(_, _, _)
LoadKnownFrom(files, i, acc) ==
    IF i > Len(files) THEN acc
    ELSE IF files[i].status = "missing" THEN acc     \* os.Open failed: return
    ELSE IF ~CsvReadAllOk(files[i].records) THEN acc \* ReadAll failed: return
    ELSE LoadKnownFrom(files, i + 1, acc \cup KnownHashesOfRecords(files[i].records))

LoadTxHashesFromMetadataCSVFiles(files) == LoadKnownFrom(files, 1, {})

(***************************************************************************)
(* parseTx and the entry it builds                                         *)
(***************************************************************************)
NewEntry(timestampMs, hashHex, rawTx) ==
    [Timestamp |-> timestampMs, Hash |-> hashHex, Rlp |-> rawTx,
     Sources |-> <<>>, IncludedAtBlockHeight |-> 0,
     IncludedBlockTimestamp |-> 0, InclusionDelayMs |-> 0]

\* the hash argument is not used: the summary's Hash is tx.Hash().Hex()
parseTx(timestampMs, hash, rawTx) ==
    LET tx == RLPStringToTx(rawTx) IN
    IF ~tx.ok THEN [ok |-> FALSE, summary |-> NewEntry(0, "", "")]
    ELSE [ok |-> TRUE, summary |-> NewEntry(timestampMs, tx.hash, rawTx)]

(***************************************************************************)
(* Lines of a transactions CSV.  rec is the number of bytes of the record  *)
(* (the line without its terminator), nl says whether ReadString found the *)
(* terminating newline (only the last line of a file can lack it), items   *)
(* the fields of the trimmed line split at commas.  A payload that decodes *)
(* is far longer than 66 bytes, so the short lines carry one that does     *)
(* not; their timestamp is one no other line has.                          *)
(***************************************************************************)
MinLineLen == 66

Lines ==
    {[rec |-> 139, nl |-> TRUE, items |-> <<t, h, r>>] :
        t \in TsStrs, h \in HashCols, r \in Raws}
    \cup {[rec |-> 139, nl |-> TRUE, items |-> <<"x", "0xaa", "R1">>],
          [rec |-> 139, nl |-> TRUE, items |-> <<"12999", "0xaa">>]}
    \cup {[rec |-> n, nl |-> b, items |-> <<"12998", "0xaa", "bad">>] :
            n \in {65, 66}, b \in BOOLEAN}

\* len(l) of the string ReadString returned: the delimiter is part of it
LineLen(l) == l.rec + (IF l.nl THEN 1 ELSE 0)

LineTooShort(l) == LineLen(l) < MinLineLen
LineFields(l) == Len(l.items) = 3
\* the line reaches the blacklist test with a timestamp and a key
LineParsed(l) == ~LineTooShort(l) /\ LineFields(l) /\ Atoi(l.items[1]).ok
LineTs(l) == Atoi(l.items[1]).val
LineKey(l) == ToLower(l.items[2])

\* a duplicate branch that never lowers the timestamp
UpdateDuplicate_KeepFirst(entry, txTimestamp) == entry

\* the duplicate branch: keep the entry, lower its timestamp
UpdateDuplicate(entry, txTimestamp) ==
    IF txTimestamp < entry.Timestamp
    THEN [entry EXCEPT !.Timestamp = txTimestamp]
    ELSE entry

\* the body of the read loop past the length test: split, parse, store
AttemptLine(m, known, l) ==
    IF ~LineFields(l) THEN m
    ELSE IF ~Atoi(l.items[1]).ok THEN m
    ELSE LET txTimestamp == LineTs(l)
             txHash == LineKey(l)
         IN IF txHash \in known THEN m
            ELSE IF txHash \in DOMAIN m
                 THEN [m EXCEPT ![txHash] = UpdateDuplicate(m[txHash], txTimestamp)]
            ELSE LET p == parseTx(txTimestamp, txHash, l.items[3]) IN
                 IF ~p.ok THEN m
                 ELSE (txHash :> p.summary) @@ m

\* the body of the read loop for one line: the map after it
ProcessLine(m, known, l) ==
    IF LineTooShort(l) THEN m ELSE AttemptLine(m, known, l)


(***************************************************************************)
(* mergeTransactions up to the call of LoadTransactionCSVFiles, and the    *)
(* loader.                                                                 *)
(***************************************************************************)
FileStates == {"ok", "unreadable", "missing"}

\* common.MustBeFile: the run ends when the file does not exist
MustBeFile(state) == state # "missing"

EmptyMap == <<>>

\* NewAnalyzer2 before a.init(): empty maps (a missing key reads as 0), zero counters
NewAnalyzer2 ==
    [nTransactionsPerSource |-> [s \in Sources |-> 0],
     sources |-> <<>>,
     nUniqueTransactions |-> 0,
     nIncluded |-> 0,
     nNotIncluded |-> 0,
     nTxOnChainBySource |-> [s \in Sources |-> 0],
     nTxNotOnChainBySource |-> [s \in Sources |-> 0],
     nTxExclusiveIncluded |-> [s \in Sources |-> [b \in BOOLEAN |-> 0]],
     nExclusiveOrderflow |-> 0,
     nTxExclusiveIncludedCnt |-> 0,
     nTxExclusiveNotIncludedCnt |-> 0,
     timestampFirst |-> 0,
     timestampLast |-> 0]

\* no latencyComp is running
NoLatencyComp ==
    /\ src = ""
    /\ ref = ""
    /\ txHashes = EmptyMap
    /\ lcTodo = {}
    /\ srcH = EmptyBag
    /\ refH = EmptyBag
    /\ totalSeenByBoth = 0

\* the merge command builds no analyzer
NoAnalyzer ==
    /\ analyzer = NewAnalyzer2
    /\ aTodo = {}
    /\ NoLatencyComp

\* the zero CollectorOpts (Log, UID, OutDir, CheckNodeURI are passed through)
NoOpts ==
    [Nodes |-> <<>>, BloxrouteAuthToken |-> "", EdenAuthToken |-> "",
     ChainboundAPIKey |-> ""]

\* no collector is running
NoCollector ==
    /\ opts = NoOpts
    /\ processors = <<>>
    /\ nodeIdx = 1
    /\ connectors = <<>>

InitLocals ==
    /\ prevKnownTxs = {}
    /\ fileIdx = 1
    /\ reading = FALSE
    /\ nRead = 0
    /\ loadFault = FALSE
    /\ carried = [k \in Keys |-> {}]
    /\ counted = [k \in Keys |-> {}]
    /\ updatedBy = [k \in Keys |-> <<>>]
    /\ signalled = [k \in Keys |-> 0]
    /\ toSend = {}
    /\ txC = <<>>
    /\ wpc = [w \in 1..workers |-> "idle"]
    /\ wtx = [w \in 1..workers |-> ""]
    /\ werr = [w \in 1..workers |-> FALSE]
    /\ nResp = 0
    /\ txsSlice = <<>>
    /\ wIdx = 1
    /\ created = {}
    /\ parquet = <<>>
    /\ csvMeta = <<>>
    /\ csvTxs = <<>>

InitState ==
    /\ pc = "start"
    /\ txs = EmptyMap
    /\ srcDone = {}
    /\ InitLocals
    /\ NoAnalyzer
    /\ NoCollector

\* no arguments, or an input file that does not exist: log.Fatal
StartFatal ==
    /\ pc = "start"
    /\ \/ Len(inputFiles) = 0
       \/ \E i \in 1..Len(inputFiles) : ~MustBeFile(inputFiles[i])
    /\ pc' = "fatal"
    /\ UNCHANGED <<cfgVars, loadVars, histVars, txs, srcDone, annVars, outVars>>
    /\ UNCHANGED <<anaVars, colVars>>

\* the checks pass; LoadTransactionCSVFiles starts by loading the blacklist
StartLoad ==
    /\ pc = "start"
    /\ Len(inputFiles) > 0
    /\ \A i \in 1..Len(inputFiles) : MustBeFile(inputFiles[i])
    /\ pc' = "load"
    /\ prevKnownTxs' = LoadTxHashesFromMetadataCSVFiles(knownTxsFiles)
    /\ UNCHANGED <<cfgVars, fileIdx, reading, nRead, loadFault, histVars, txs,
                   srcDone, annVars, outVars>>
    /\ UNCHANGED <<anaVars, colVars>>

\* os.Open of the next input file
OpenFile ==
    /\ pc = "load"
    /\ ~reading
    /\ fileIdx <= Len(inputFiles)
    /\ IF inputFiles[fileIdx] = "ok"
       THEN /\ reading' = TRUE
            /\ UNCHANGED <<pc, loadFault>>
       ELSE /\ pc' = "loaded"           \* logged; returns the map built so far
            /\ loadFault' = TRUE
            /\ UNCHANGED reading
    /\ UNCHANGED <<cfgVars, prevKnownTxs, fileIdx, nRead, histVars, txs,
                   srcDone, annVars, outVars>>
    /\ UNCHANGED <<anaVars, colVars>>

\* one turn of the read loop on line l; after a line without a newline the
\* next ReadString returns "" and io.EOF, and the loop over the lines ends
ReadLine(l) ==
    /\ pc = "load"
    /\ reading
    /\ nRead < MaxLines
    /\ nRead' = nRead + 1
    /\ txs' = ProcessLine(txs, prevKnownTxs, l)
    /\ loadFault' = (loadFault \/ (~LineTooShort(l) /\ LineFields(l) /\ ~Atoi(l.items[1]).ok))
    /\ IF l.nl
       THEN UNCHANGED <<fileIdx, reading>>
       ELSE /\ reading' = FALSE
            /\ fileIdx' = fileIdx + 1
    /\ UNCHANGED <<pc, cfgVars, prevKnownTxs, srcDone, annVars, outVars>>
    /\ UNCHANGED <<anaVars, colVars>>

\* the histories of the lines read
RecordLine(l) ==
    /\ IF LineParsed(l)
       THEN /\ carried' = [carried EXCEPT ![LineKey(l)] = @ \cup {LineTs(l)}]
            /\ counted' = IF LineKey(l) \in DOMAIN txs'
                          THEN [counted EXCEPT ![LineKey(l)] = @ \cup {LineTs(l)}]
                          ELSE counted
       ELSE UNCHANGED <<carried, counted>>
    /\ UNCHANGED <<updatedBy, signalled>>

\* io.EOF, or a read error: the loop over the lines of this file ends
EndOfFile ==
    /\ pc = "load"
    /\ reading
    /\ reading' = FALSE
    /\ fileIdx' = fileIdx + 1
    /\ UNCHANGED <<pc, cfgVars, prevKnownTxs, nRead, loadFault, histVars, txs,
                   srcDone, annVars, outVars>>
    /\ UNCHANGED <<anaVars, colVars>>

\* all files read: return txs
LoaderReturn ==
    /\ pc = "load"
    /\ ~reading
    /\ fileIdx > Len(inputFiles)
    /\ pc' = "loaded"
    /\ UNCHANGED <<cfgVars, loadVars, histVars, txs, srcDone, annVars, outVars>>
    /\ UNCHANGED <<anaVars, colVars>>

InitLoad ==
    /\ knownTxsFiles \in SeqsUpTo({KFileA}, MaxKnownFiles)
    /\ inputFiles \in SeqsUpTo({"ok", "unreadable"}, MaxFiles) \ {<<>>}
    /\ sourcelog = EmptyMap
    /\ workers = 1
    /\ writeTxCSV = FALSE
    /\ InitState

NextLoad ==
    \/ StartLoad
    \/ OpenFile
    \/ \E l \in Lines : ReadLine(l) /\ RecordLine(l)
    \/ EndOfFile
    \/ LoaderReturn

SpecLoad == InitLoad /\ [][NextLoad]_vars


(***************************************************************************)
(* Sources of each transaction, in order of receiving them.                *)
(***************************************************************************)
Perms(S) == {p \in [1..Cardinality(S) -> S] : \A i, j \in 1..Cardinality(S) : p[i] = p[j] => i = j}

Swap(s, i, j) == [s EXCEPT ![i] = s[j], ![j] = s[i]]

\* sourcelog[hash]: a nil map when the hash is not in the sourcelog
SourcesOf(hash) == IF hash \in DOMAIN sourcelog THEN sourcelog[hash] ELSE EmptyMap

\* the comparison of txSources turned round
LessSrc_Descending(a, b) == a.timestamp > b.timestamp

\* the comparison handed to sort.Slice for txSources
LessSrc(a, b) == a.timestamp < b.timestamp

\* sort.Slice on a short slice is an insertion sort
RECURSIVE BubbleSrc(_, _)
BubbleSrc(s, j) ==
    IF j > 1 /\ LessSrc(s[j], s[j - 1]) THEN BubbleSrc(Swap(s, j, j - 1), j - 1) ELSE s

RECURSIVE InsertionSortSrc(_, _)
InsertionSortSrc(s, i) ==
    IF i > Len(s) THEN s ELSE InsertionSortSrc(BubbleSrc(s, i), i + 1)

\* tx.Sources for one transaction; order is the iteration order of sourcelog[hash]
SortedSources(hash, order) ==
    LET txSources == [i \in 1..Len(order) |->
                        [source |-> order[i], timestamp |-> SourcesOf(hash)[order[i]]]]
        sorted == InsertionSortSrc(txSources, 2)
    IN [i \in 1..Len(sorted) |-> sorted[i].source]

\* check(err), LoadSourcelogFiles
BeginSources ==
    /\ pc = "loaded"
    /\ pc' = "sources"
    /\ UNCHANGED <<cfgVars, loadVars, histVars, txs, srcDone, annVars, outVars>>
    /\ UNCHANGED <<anaVars, colVars>>

\* one turn of the loop over txs
AssignSources(hash) ==
    /\ pc = "sources"
    /\ hash \in DOMAIN txs \ srcDone
    /\ \E order \in Perms(DOMAIN SourcesOf(hash)) :
          txs' = [txs EXCEPT ![hash].Sources = SortedSources(hash, order)]
    /\ srcDone' = srcDone \cup {hash}
    /\ UNCHANGED <<pc, cfgVars, loadVars, histVars, annVars, outVars>>
    /\ UNCHANGED <<anaVars, colVars>>

(***************************************************************************)
(* updateInclusionStatus and the TxUpdateWorker goroutines.                *)
(***************************************************************************)
RpcOutcomes ==
    {[err |-> TRUE, height |-> 0, blockTs |-> 0],
     [err |-> FALSE, height |-> 0, blockTs |-> 0],
     [err |-> FALSE, height |-> 1, blockTs |-> 1]}

\* TxSummaryEntry.UpdateInclusionStatus: fills the inclusion fields when the node
\* reports the transaction as included
UpdateInclusionStatus(entry, o) ==
    IF o.err \/ o.height = 0 THEN entry
    ELSE [entry EXCEPT !.IncludedAtBlockHeight = o.height,
                       !.IncludedBlockTimestamp = o.blockTs,
                       !.InclusionDelayMs = o.blockTs * 1000 - entry.Timestamp]

\* the process is running: a goroutine can take a step
Alive == pc \notin {"start", "load", "loaded", "sources", "fatal", "done"}

\* make the channels and start the workers
StartWorkers ==
    /\ pc = "sources"
    /\ srcDone = DOMAIN txs
    /\ pc' = "annotate"
    /\ toSend' = DOMAIN txs
    /\ txC' = <<>>
    /\ nResp' = 0
    /\ wpc' = [w \in 1..workers |-> "dial"]
    /\ UNCHANGED <<cfgVars, loadVars, histVars, txs, srcDone, wtx, werr, outVars>>
    /\ UNCHANGED <<anaVars, colVars>>

\* ethclient.Dial succeeds: the worker enters its range loop
WorkerDial(w) ==
    /\ Alive
    /\ wpc[w] = "dial"
    /\ wpc' = [wpc EXCEPT ![w] = "range"]
    /\ UNCHANGED <<pc, cfgVars, loadVars, histVars, txs, srcDone, toSend, txC, wtx,
                   werr, nResp, outVars>>
    /\ UNCHANGED <<anaVars, colVars>>

\* ethclient.Dial fails: log.Fatal ends the process
WorkerDialFatal(w) ==
    /\ Alive
    /\ wpc[w] = "dial"
    /\ pc' = "fatal"
    /\ UNCHANGED <<cfgVars, loadVars, histVars, txs, srcDone, annVars, outVars>>
    /\ UNCHANGED <<anaVars, colVars>>

\* the driver: txC <- entry, which blocks while the buffer is full
Enqueue(k) ==
    /\ pc = "annotate"
    /\ k \in toSend
    /\ Len(txC) < TxCCap
    /\ txC' = Append(txC, k)
    /\ toSend' = toSend \ {k}
    /\ UNCHANGED <<pc, cfgVars, loadVars, histVars, txs, srcDone, wpc, wtx, werr,
                   nResp, outVars>>
    /\ UNCHANGED <<anaVars, colVars>>

\* a worker: for tx := range p.txC; the channel is never closed, so the loop
\* has no exit
Dequeue(w) ==
    /\ Alive
    /\ wpc[w] = "range"
    /\ txC # <<>>
    /\ wtx' = [wtx EXCEPT ![w] = Head(txC)]
    /\ txC' = Tail(txC)
    /\ wpc' = [wpc EXCEPT ![w] = "update"]
    /\ UNCHANGED <<pc, cfgVars, loadVars, histVars, txs, srcDone, toSend, werr,
                   nResp, outVars>>
    /\ UNCHANGED <<anaVars, colVars>>

\* a worker: err := tx.UpdateInclusionStatus(p.ethClient)
Update(w) ==
    /\ Alive
    /\ wpc[w] = "update"
    /\ \E o \in RpcOutcomes :
          /\ txs' = [txs EXCEPT ![wtx[w]] = UpdateInclusionStatus(@, o)]
          /\ werr' = [werr EXCEPT ![w] = o.err]
    /\ wpc' = [wpc EXCEPT ![w] = "send"]
    /\ updatedBy' = [updatedBy EXCEPT ![wtx[w]] = Append(@, w)]
    /\ UNCHANGED <<pc, cfgVars, loadVars, carried, counted, signalled, srcDone, toSend,
                   txC, wtx, nResp, outVars>>
    /\ UNCHANGED <<anaVars, colVars>>

\* p.respC <- err meets the driver's <-respC: respC has no buffer, and the driver
\* receives only after its last enqueue
Respond(w) ==
    /\ pc = "annotate"
    /\ toSend = {}
    /\ nResp < Cardinality(DOMAIN txs)
    /\ wpc[w] = "send"
    /\ nResp' = nResp + 1
    /\ wpc' = [wpc EXCEPT ![w] = "range"]
    /\ signalled' = [signalled EXCEPT ![wtx[w]] = @ + 1]
    /\ UNCHANGED <<pc, cfgVars, loadVars, carried, counted, updatedBy, txs, srcDone,
                   toSend, txC, wtx, werr, outVars>>
    /\ UNCHANGED <<anaVars, colVars>>

\* len(txs) responses read: return nil
AnnotateReturn ==
    /\ pc = "annotate"
    /\ toSend = {}
    /\ nResp = Cardinality(DOMAIN txs)
    /\ pc' = "sort"
    /\ UNCHANGED <<cfgVars, loadVars, histVars, txs, srcDone, annVars, outVars>>
    /\ UNCHANGED <<anaVars, colVars>>

(***************************************************************************)
(* Sorting and writing.                                                    *)
(***************************************************************************)
OutlierDelayMs == -12000

\* the comparison of txsSlice turned round
LessTx_Descending(a, b) == txs[a].Timestamp > txs[b].Timestamp

\* the comparison handed to sort.Slice for txsSlice (a slice of entry pointers)
LessTx(a, b) == txs[a].Timestamp < txs[b].Timestamp

RECURSIVE BubbleTx(_, _)
BubbleTx(s, j) ==
    IF j > 1 /\ LessTx(s[j], s[j - 1]) THEN BubbleTx(Swap(s, j, j - 1), j - 1) ELSE s

RECURSIVE InsertionSortTx(_, _)
InsertionSortTx(s, i) ==
    IF i > Len(s) THEN s ELSE InsertionSortTx(BubbleTx(s, i), i + 1)

\* the row of an entry, as the writers receive it
Row(k) == [ref |-> k, Timestamp |-> txs[k].Timestamp, Hash |-> txs[k].Hash]

\* an outlier test that lets the boundary value through
SkipOutlier_Strict(entry) == entry.InclusionDelayMs < OutlierDelayMs

\* skip transactions that were included before they were received
SkipOutlier(entry) == entry.InclusionDelayMs <= OutlierDelayMs

\* the map's values in iteration order, then sort.Slice
SortTxs ==
    /\ pc = "sort"
    /\ \E order \in Perms(DOMAIN txs) : txsSlice' = InsertionSortTx(order, 2)
    /\ pc' = "prepare"
    /\ UNCHANGED <<cfgVars, loadVars, histVars, txs, srcDone, annVars, wIdx, created,
                   parquet, csvMeta, csvTxs>>
    /\ UNCHANGED <<anaVars, colVars>>

\* open the output files and write the headers
PrepareOutput ==
    /\ pc = "prepare"
    /\ created' = {"metadata.csv", "transactions.parquet"}
                  \cup (IF writeTxCSV THEN {"transactions.csv"} ELSE {})
    /\ wIdx' = 1
    /\ pc' = "write"
    /\ UNCHANGED <<cfgVars, loadVars, histVars, txs, srcDone, annVars, txsSlice,
                   parquet, csvMeta, csvTxs>>
    /\ UNCHANGED <<anaVars, colVars>>

\* one turn of the write loop
WriteRow ==
    /\ pc = "write"
    /\ wIdx <= Len(txsSlice)
    /\ LET k == txsSlice[wIdx] IN
       IF SkipOutlier(txs[k])
       THEN UNCHANGED <<parquet, csvMeta, csvTxs>>
       ELSE /\ parquet' = Append(parquet, Row(k))
            /\ csvTxs' = IF writeTxCSV THEN Append(csvTxs, Row(k)) ELSE csvTxs
            /\ csvMeta' = Append(csvMeta, Row(k))
    /\ wIdx' = wIdx + 1
    /\ UNCHANGED <<pc, cfgVars, loadVars, histVars, txs, srcDone, annVars, txsSlice,
                   created>>
    /\ UNCHANGED <<anaVars, colVars>>

\* close the files
CloseOutput ==
    /\ pc = "write"
    /\ wIdx > Len(txsSlice)
    /\ pc' = "done"
    /\ UNCHANGED <<cfgVars, loadVars, histVars, txs, srcDone, annVars, outVars>>
    /\ UNCHANGED <<anaVars, colVars>>

(***************************************************************************)
(* The whole merge.                                                        *)
(***************************************************************************)
SmallSourcelog == ("0xaa" :> ("A" :> 13000 @@ "B" :> 12999))

Init ==
    /\ knownTxsFiles \in SeqsUpTo(KnownFileSet, MaxKnownFiles)
    /\ inputFiles \in SeqsUpTo(FileStates, MaxFiles)
    /\ sourcelog = SmallSourcelog
    /\ workers = 1
    /\ writeTxCSV \in BOOLEAN
    /\ InitState

NextAnnotate ==
    \/ StartWorkers
    \/ \E w \in 1..workers : WorkerDial(w)
    \/ \E w \in 1..workers : WorkerDialFatal(w)
    \/ \E k \in Keys : Enqueue(k)
    \/ \E w \in 1..workers : Dequeue(w)
    \/ \E w \in 1..workers : Update(w)
    \/ \E w \in 1..workers : Respond(w)
    \/ AnnotateReturn

NextWrite ==
    \/ SortTxs
    \/ PrepareOutput
    \/ WriteRow
    \/ CloseOutput

NextSources ==
    \/ BeginSources
    \/ \E hash \in Keys : AssignSources(hash)

Next ==
    \/ StartFatal
    \/ StartLoad
    \/ OpenFile
    \/ \E l \in Lines : ReadLine(l) /\ UNCHANGED histVars
    \/ EndOfFile
    \/ LoaderReturn
    \/ NextSources
    \/ NextAnnotate
    \/ NextWrite

Spec == Init /\ [][Next]_vars


(***************************************************************************)
(* The phases of the merge on their own, each started from the maps the    *)
(* phase before it can hand over.                                          *)
(***************************************************************************)
Timestamps == {12999, 13000, 13001}

\* the entry LoadTransactionCSVFiles stores for a line whose payload hashes to k
LoadedEntry(k, ts) ==
    parseTx(ts, k, RawPool[CHOOSE i \in 1..Len(KeyPool) : KeyPool[i] = k]).summary

\* maps as the loader returns them
LoadedMaps ==
    UNION {{[k \in d |-> LoadedEntry(k, c[k])] : c \in [d -> Timestamps]} :
             d \in SUBSET Keys}

\* what the node can answer for an entry of the write phase: as RpcOutcomes, and
\* an inclusion after the entry was received
WriteChoices ==
    {[ts |-> t, o |-> o] : t \in Timestamps, o \in RpcOutcomes}
    \cup {[ts |-> 13000, o |-> [err |-> FALSE, height |-> 2, blockTs |-> 14]]}

\* maps as updateInclusionStatus leaves them
AnnotatedMaps ==
    UNION {{[k \in d |-> UpdateInclusionStatus(LoadedEntry(k, c[k].ts), c[k].o)] :
              c \in [d -> WriteChoices]} : d \in SUBSET Keys}

\* sourcelogs: [hash][source] = timestampMs
SourceMaps == UNION {[d -> {12999, 13000}] : d \in SUBSET Sources}
Sourcelogs == UNION {[d -> SourceMaps] : d \in SUBSET {KeyPool[1], KeyPool[2]}}

InitSources ==
    /\ knownTxsFiles = <<>>
    /\ inputFiles = <<"ok">>
    /\ sourcelog \in Sourcelogs
    /\ workers = 1
    /\ writeTxCSV = FALSE
    /\ pc = "loaded"
    /\ txs \in {[k \in d |-> LoadedEntry(k, 13000)] : d \in SUBSET Keys}
    /\ srcDone = {}
    /\ InitLocals
    /\ NoAnalyzer
    /\ NoCollector

SpecSources == InitSources /\ [][NextSources]_vars

InitAnnotate ==
    /\ knownTxsFiles = <<>>
    /\ inputFiles = <<"ok">>
    /\ sourcelog = EmptyMap
    /\ workers \in 1..MaxWorkers
    /\ writeTxCSV = FALSE
    /\ pc = "sources"
    /\ txs \in LoadedMaps
    /\ InitLocals
    /\ srcDone = DOMAIN txs
    /\ NoAnalyzer
    /\ NoCollector

SpecAnnotate == InitAnnotate /\ [][NextAnnotate]_vars

\* the scheduler runs a goroutine that can run
SpecAnnotateFair == SpecAnnotate /\ WF_vars(NextAnnotate)

InitWrite ==
    /\ knownTxsFiles = <<>>
    /\ inputFiles = <<"ok">>
    /\ sourcelog = EmptyMap
    /\ workers = 1
    /\ writeTxCSV \in BOOLEAN
    /\ pc = "sort"
    /\ txs \in AnnotatedMaps
    /\ InitLocals
    /\ srcDone = DOMAIN txs
    /\ NoAnalyzer
    /\ NoCollector

SpecWrite == InitWrite /\ [][NextWrite]_vars


(***************************************************************************)
(* Analyzer2.init over a.opts.Transactions (txs).                          *)
(***************************************************************************)
\* an exclusivity test that takes every entry with a source
IsExclusive_AnySource(tx) == Len(tx.Sources) >= 1

\* exclusive orderflow: the entry has one source
IsExclusive(tx) == Len(tx.Sources) = 1

\* the body of `for _, src := range tx.Sources`, from index i on
RECURSIVE CountSources(_, _, _)
CountSources(an, tx, i) ==
    IF i > Len(tx.Sources) THEN an
    ELSE LET s == tx.Sources[i]
             landed == tx.IncludedAtBlockHeight # 0
             perSource ==
                 [an EXCEPT !.nTransactionsPerSource[s] = @ + 1,
                            !.nTxNotOnChainBySource[s] = IF landed THEN @ ELSE @ + 1,
                            !.nTxOnChainBySource[s] = IF landed THEN @ + 1 ELSE @]
             exclusive ==
                 IF IsExclusive(tx)
                 THEN [perSource EXCEPT
                         !.nTxExclusiveIncluded[s][landed] = @ + 1,
                         !.nExclusiveOrderflow = @ + 1,
                         !.nTxExclusiveNotIncludedCnt = IF landed THEN @ ELSE @ + 1,
                         !.nTxExclusiveIncludedCnt = IF landed THEN @ + 1 ELSE @]
                 ELSE perSource
         IN CountSources(exclusive, tx, i + 1)

\* the body of `for _, tx := range a.opts.Transactions`
CountTx(an, tx) ==
    LET incl == IF tx.IncludedAtBlockHeight = 0
                THEN [an EXCEPT !.nNotIncluded = @ + 1]
                ELSE [an EXCEPT !.nIncluded = @ + 1]
        counted1 == CountSources(incl, tx, 1)
        first == IF counted1.timestampFirst = 0 \/ tx.Timestamp < counted1.timestampFirst
                 THEN [counted1 EXCEPT !.timestampFirst = tx.Timestamp]
                 ELSE counted1
    IN IF first.timestampLast = 0 \/ tx.Timestamp > first.timestampLast
       THEN [first EXCEPT !.timestampLast = tx.Timestamp]
       ELSE first

\* sort.Strings over the keys of nTransactionsPerSource
SourceOrder == <<"A", "B", "C">>
SourceRank(s) == CHOOSE i \in 1..Len(SourceOrder) : SourceOrder[i] = s
SortedKeys(counts) ==
    SelectSeq(SourceOrder, LAMBDA s : counts[s] > 0)

AnalyzerInitBegin ==
    /\ pc = "new"
    /\ pc' = "init"
    /\ analyzer' = [analyzer EXCEPT !.nUniqueTransactions = Cardinality(DOMAIN txs)]
    /\ aTodo' = DOMAIN txs
    /\ UNCHANGED <<mergeVars, txs, lcVars>>
    /\ UNCHANGED colVars

AnalyzerInitTx(txHash) ==
    /\ pc = "init"
    /\ txHash \in aTodo
    /\ aTodo' = aTodo \ {txHash}
    /\ analyzer' = CountTx(analyzer, txs[txHash])
    /\ UNCHANGED <<pc, mergeVars, txs, lcVars>>
    /\ UNCHANGED colVars

AnalyzerInitEnd ==
    /\ pc = "init"
    /\ aTodo = {}
    /\ pc' = "ready"
    /\ analyzer' = [analyzer EXCEPT !.sources = SortedKeys(analyzer.nTransactionsPerSource)]
    /\ UNCHANGED <<mergeVars, txs, aTodo, lcVars>>
    /\ UNCHANGED colVars

NextAnalyzerInit ==
    \/ AnalyzerInitBegin
    \/ \E txHash \in Keys : AnalyzerInitTx(txHash)
    \/ AnalyzerInitEnd

\* the analyzer NewAnalyzer2 returns for a transaction map
RECURSIVE CountAll(_, _, _)
CountAll(an, m, todo) ==
    IF todo = {} THEN an
    ELSE LET k == CHOOSE k \in todo : TRUE
         IN CountAll(CountTx(an, m[k]), m, todo \ {k})

AnalyzerOf(m) ==
    LET counted1 == CountAll([NewAnalyzer2 EXCEPT !.nUniqueTransactions = Cardinality(DOMAIN m)],
                             m, DOMAIN m)
    IN [counted1 EXCEPT !.sources = SortedKeys(counted1.nTransactionsPerSource)]

(***************************************************************************)
(* The histograms of latencyComp: hdrhistogram.New(1, 5000000, 3).  A      *)
(* histogram is the bag of the counts indexes recorded; RecordValue        *)
(* returns an error, which latencyComp discards, and records nothing when  *)
(* the value's index is beyond the counts array.                           *)
(***************************************************************************)
HistLowest == 1
HistHighest == 5000000
HistSigFigs == 3

RECURSIVE Pow10(_)
Pow10(n) == IF n = 0 THEN 1 ELSE 10 * Pow10(n - 1)

RECURSIVE Pow2(_)
Pow2(n) == IF n = 0 THEN 1 ELSE 2 * Pow2(n - 1)

\* the smallest p * 2^k that is at least n
RECURSIVE DoubleUpTo(_, _)
DoubleUpTo(p, n) == IF p >= n THEN p ELSE DoubleUpTo(2 * p, n)

\* 2^ceil(log2(2 * 10^sigfigs)); the unit magnitude of a lowest value of 1 is 0
SubBucketCount == DoubleUpTo(HistLowest, 2 * Pow10(HistSigFigs))
SubBucketHalfCount == SubBucketCount \div 2

\* buckets needed to reach the highest trackable value
RECURSIVE BucketsNeeded(_)
BucketsNeeded(smallestUntrackable) ==
    IF smallestUntrackable >= HistHighest THEN 1
    ELSE 1 + BucketsNeeded(2 * smallestUntrackable)

CountsLen == (BucketsNeeded(SubBucketCount) + 1) * SubBucketHalfCount

RECURSIVE BucketIdx(_)
BucketIdx(v) == IF v < SubBucketCount THEN 0 ELSE 1 + BucketIdx(v \div 2)

CountsIndexFor(v) ==
    LET bucketIdx == BucketIdx(v)
        subBucketIdx == v \div Pow2(bucketIdx)
    IN (bucketIdx + 1) * SubBucketHalfCount + (subBucketIdx - SubBucketHalfCount)

\* the histogram can hold the value
Trackable(v) == CountsIndexFor(v) >= 0 /\ CountsIndexFor(v) < CountsLen

\* a histogram that takes every value
RecordValue_Unbounded(h, v) == h (+) SetToBag({CountsIndexFor(v)})

RecordValue(h, v) ==
    IF Trackable(v) THEN h (+) SetToBag({CountsIndexFor(v)}) ELSE h

(***************************************************************************)
(* Analyzer2.latencyComp(src, ref) over a.opts.Transactions (txs) and      *)
(* a.opts.Sourelog (sourcelog).                                            *)
(***************************************************************************)
\* the configured pairs (source, reference)
SourceComps == {<<"A", "B">>, <<"B", "A">>, <<"A", "C">>}

\* tx.HasSource
HasSource(tx, s) == \E i \in 1..Len(tx.Sources) : tx.Sources[i] = s

\* reading a map[string]int64: a missing key reads as 0
Get(m, k) == IF k \in DOMAIN m THEN m[k] ELSE 0

LcStart(s, r) ==
    /\ pc = "ready"
    /\ pc' = "lc1"
    /\ src' = s
    /\ ref' = r
    /\ srcH' = EmptyBag
    /\ refH' = EmptyBag
    /\ txHashes' = EmptyMap
    /\ lcTodo' = DOMAIN txs
    /\ UNCHANGED <<mergeVars, txs, analyzer, aTodo, totalSeenByBoth>>
    /\ UNCHANGED colVars

\* 1. one turn of the loop over a.opts.Transactions
LcSelect(txHash) ==
    /\ pc = "lc1"
    /\ txHash \in lcTodo
    /\ lcTodo' = lcTodo \ {txHash}
    /\ LET tx == txs[txHash]
           txHashLower == ToLower(txHash)
       IN IF Len(tx.Sources) = 1 THEN UNCHANGED txHashes
          ELSE IF tx.IncludedAtBlockHeight = 0 THEN UNCHANGED txHashes
          ELSE IF ~HasSource(tx, src) \/ ~HasSource(tx, ref) THEN UNCHANGED txHashes
          ELSE txHashes' = [h \in DOMAIN txHashes \cup {txHashLower} |->
                              IF h = txHashLower THEN EmptyMap ELSE txHashes[h]]
    /\ UNCHANGED <<pc, mergeVars, txs, analyzer, aTodo, src, ref, srcH, refH, totalSeenByBoth>>
    /\ UNCHANGED colVars

LcSelectDone ==
    /\ pc = "lc1"
    /\ lcTodo = {}
    /\ pc' = "lc2"
    /\ lcTodo' = DOMAIN sourcelog
    /\ UNCHANGED <<mergeVars, txs, analyzer, aTodo, src, ref, txHashes, srcH, refH, totalSeenByBoth>>
    /\ UNCHANGED colVars

\* the lower of the stored and the new timestamp; a stored 0 counts as not stored
FirstTs(m, k, ts) ==
    IF Get(m, k) = 0 \/ ts < Get(m, k)
    THEN [x \in DOMAIN m \cup {k} |-> IF x = k THEN ts ELSE m[x]]
    ELSE m

\* 2. one turn of the loop over a.opts.Sourelog
LcScan(txHash) ==
    /\ pc = "lc2"
    /\ txHash \in lcTodo
    /\ lcTodo' = lcTodo \ {txHash}
    /\ LET txHashLower == ToLower(txHash)
           sources == sourcelog[txHash]
       IN IF txHashLower \notin DOMAIN txHashes THEN UNCHANGED txHashes
          ELSE IF src \notin DOMAIN sources \/ ref \notin DOMAIN sources
               THEN UNCHANGED txHashes
          ELSE txHashes' =
                 [txHashes EXCEPT ![txHashLower] =
                     FirstTs(FirstTs(@, src, sources[src]), ref, sources[ref])]
    /\ UNCHANGED <<pc, mergeVars, txs, analyzer, aTodo, src, ref, srcH, refH, totalSeenByBoth>>
    /\ UNCHANGED colVars

LcScanDone ==
    /\ pc = "lc2"
    /\ lcTodo = {}
    /\ pc' = "lc3"
    /\ lcTodo' = DOMAIN txHashes
    /\ UNCHANGED <<mergeVars, txs, analyzer, aTodo, src, ref, txHashes, srcH, refH, totalSeenByBoth>>
    /\ UNCHANGED colVars

\* 3. one turn of the loop over txHashes
LcBucket(txHash) ==
    /\ pc = "lc3"
    /\ txHash \in lcTodo
    /\ lcTodo' = lcTodo \ {txHash}
    /\ LET sources == txHashes[txHash]
           srcTS == Get(sources, src)
           localTS == Get(sources, ref)
           diff == localTS - srcTS
       IN IF diff = 0 THEN UNCHANGED <<srcH, refH>>
          ELSE IF diff > 0
               THEN srcH' = RecordValue(srcH, diff) /\ UNCHANGED refH
          ELSE refH' = RecordValue(refH, -diff) /\ UNCHANGED srcH
    /\ UNCHANGED <<pc, mergeVars, txs, analyzer, aTodo, src, ref, txHashes, totalSeenByBoth>>
    /\ UNCHANGED colVars

\* return srcH, refH, len(txHashes)
LcReturn ==
    /\ pc = "lc3"
    /\ lcTodo = {}
    /\ pc' = "lcdone"
    /\ totalSeenByBoth' = Cardinality(DOMAIN txHashes)
    /\ UNCHANGED <<mergeVars, txs, analyzer, aTodo, src, ref, txHashes, lcTodo, srcH, refH>>
    /\ UNCHANGED colVars

NextLatency ==
    \/ \E p \in SourceComps : LcStart(p[1], p[2])
    \/ \E txHash \in Keys : LcSelect(txHash)
    \/ LcSelectDone
    \/ \E txHash \in Keys : LcScan(txHash)
    \/ LcScanDone
    \/ \E txHash \in Keys : LcBucket(txHash)
    \/ LcReturn

(***************************************************************************)
(* The analyzer's inputs: a transaction map as the merge writes it (the    *)
(* sources of an entry are the keys of sourcelog[hash] by timestamp) and   *)
(* the sourcelog.                                                          *)
(***************************************************************************)
\* an entry of the merged map: its sources, and whether it landed on chain
AnalyzedEntry(k, sources, landed) ==
    [UpdateInclusionStatus(LoadedEntry(k, 13000),
                           [err |-> FALSE, height |-> IF landed THEN 1 ELSE 0,
                            blockTs |-> IF landed THEN 14 ELSE 0])
        EXCEPT !.Sources = sources]

SourceLists == {<<>>, <<"A">>, <<"B">>, <<"A", "B">>, <<"B", "A", "C">>}

InitAnalyzerInit ==
    /\ knownTxsFiles = <<>>
    /\ inputFiles = <<"ok">>
    /\ sourcelog = EmptyMap
    /\ workers = 1
    /\ writeTxCSV = FALSE
    /\ pc = "new"
    /\ txs \in UNION {{[k \in d |-> AnalyzedEntry(k, c[k][1], c[k][2])] :
                          c \in [d -> SourceLists \X BOOLEAN]} : d \in SUBSET Keys}
    /\ srcDone = DOMAIN txs
    /\ InitLocals
    /\ NoAnalyzer
    /\ NoCollector

SpecAnalyzerInit == InitAnalyzerInit /\ [][NextAnalyzerInit]_vars

\* sourcelog[hash] and the inclusion of the entry, for the latency comparison;
\* 9000000 is a second sighting two and a half hours after the first
LatencyChoices ==
    {[log |-> EmptyMap, landed |-> TRUE],
     [log |-> ("A" :> 1000), landed |-> TRUE],
     [log |-> ("A" :> 1000 @@ "B" :> 1200), landed |-> FALSE],
     [log |-> ("A" :> 1000 @@ "B" :> 1200), landed |-> TRUE],
     [log |-> ("A" :> 1000 @@ "B" :> 1000), landed |-> TRUE],
     [log |-> ("A" :> 1000 @@ "B" :> 9000000), landed |-> TRUE],
     [log |-> ("A" :> 1200 @@ "B" :> 1000 @@ "C" :> 1200), landed |-> TRUE]}

\* the keys of a sourcelog entry in ascending order of timestamp
SourcesByTime(log) ==
    CHOOSE q \in Perms(DOMAIN log) :
        \A i, j \in 1..Len(q) : i < j =>
            \/ log[q[i]] < log[q[j]]
            \/ log[q[i]] = log[q[j]] /\ SourceRank(q[i]) < SourceRank(q[j])

InitLatency ==
    /\ knownTxsFiles = <<>>
    /\ inputFiles = <<"ok">>
    /\ workers = 1
    /\ writeTxCSV = FALSE
    /\ pc = "ready"
    /\ \E d \in SUBSET Keys : \E c \in [d -> LatencyChoices] :
         /\ sourcelog = [k \in {x \in d : c[x].log # EmptyMap} |-> c[k].log]
         /\ txs = [k \in d |-> AnalyzedEntry(k, SourcesByTime(c[k].log), c[k].landed)]
    /\ srcDone = DOMAIN txs
    /\ InitLocals
    /\ analyzer = AnalyzerOf(txs)
    /\ aTodo = {}
    /\ NoLatencyComp
    /\ NoCollector

SpecLatency == InitLatency /\ [][NextLatency]_vars

(***************************************************************************)
(* collector.Start.  A connection is the constructor that made it (its Go  *)
(* type), the credential and the URL Start put into its options, and the   *)
(* channel it was given.                                                   *)
(***************************************************************************)
NodeURIs == {"node1", "node2"}

CollectorOptsSet ==
    {[Nodes |-> n, BloxrouteAuthToken |-> b, EdenAuthToken |-> e, ChainboundAPIKey |-> c] :
        n \in SeqsUpTo(NodeURIs, MaxNodes), b \in {"", "blx-token"},
        e \in {"", "eden-token"}, c \in {"", "chainbound-key"}}

\* the channel of the processor Start made
ProcessorTxC == processors[Len(processors)]

NewNodeConnection(nodeURI, ch) ==
    [type |-> "NodeConnection", credential |-> "", url |-> nodeURI, txC |-> ch]

\* BlxNodeOpts{AuthHeader, URL}: a field Start leaves out is the empty string
NewBlxNodeConnection(authHeader, url, ch) ==
    [type |-> "BlxNodeConnection", credential |-> authHeader, url |-> url, txC |-> ch]

NewChainboundNodeConnection(apiKey, ch) ==
    [type |-> "ChainboundNodeConnection", credential |-> apiKey, url |-> "", txC |-> ch]

\* processor := NewTxProcessor(...); go processor.Start()
StartProcessor ==
    /\ pc = "collect"
    /\ pc' = "nodes"
    /\ processors' = Append(processors, Len(processors) + 1)
    /\ UNCHANGED <<mergeVars, txs, anaVars, opts, nodeIdx, connectors>>

\* one turn of the loop over opts.Nodes
StartNode ==
    /\ pc = "nodes"
    /\ nodeIdx <= Len(opts.Nodes)
    /\ connectors' = Append(connectors, NewNodeConnection(opts.Nodes[nodeIdx], ProcessorTxC))
    /\ nodeIdx' = nodeIdx + 1
    /\ UNCHANGED <<pc, mergeVars, txs, anaVars, opts, processors>>

NodesDone ==
    /\ pc = "nodes"
    /\ nodeIdx > Len(opts.Nodes)
    /\ pc' = "blx"
    /\ UNCHANGED <<mergeVars, txs, anaVars, colVars>>

\* if opts.BloxrouteAuthToken != ""
StartBlx ==
    /\ pc = "blx"
    /\ pc' = "eden"
    /\ connectors' =
         IF opts.BloxrouteAuthToken # ""
         THEN Append(connectors,
                     NewBlxNodeConnection(opts.BloxrouteAuthToken, "blxDefaultURL", ProcessorTxC))
         ELSE connectors
    /\ UNCHANGED <<mergeVars, txs, anaVars, opts, processors, nodeIdx>>

\* if opts.EdenAuthToken != "": a BlxNodeConnection again, with no URL
StartEden ==
    /\ pc = "eden"
    /\ pc' = "chainbound"
    /\ connectors' =
         IF opts.EdenAuthToken # ""
         THEN Append(connectors, NewBlxNodeConnection(opts.EdenAuthToken, "", ProcessorTxC))
         ELSE connectors
    /\ UNCHANGED <<mergeVars, txs, anaVars, opts, processors, nodeIdx>>

\* if opts.ChainboundAPIKey != ""; then Start returns
StartChainbound ==
    /\ pc = "chainbound"
    /\ pc' = "collecting"
    /\ connectors' =
         IF opts.ChainboundAPIKey # ""
         THEN Append(connectors,
                     NewChainboundNodeConnection(opts.ChainboundAPIKey, ProcessorTxC))
         ELSE connectors
    /\ UNCHANGED <<mergeVars, txs, anaVars, opts, processors, nodeIdx>>

NextCollector ==
    \/ StartProcessor
    \/ StartNode
    \/ NodesDone
    \/ StartBlx
    \/ StartEden
    \/ StartChainbound

InitCollector ==
    /\ knownTxsFiles = <<>>
    /\ inputFiles = <<>>
    /\ sourcelog = EmptyMap
    /\ workers = 1
    /\ writeTxCSV = FALSE
    /\ pc = "collect"
    /\ txs = EmptyMap
    /\ srcDone = {}
    /\ InitLocals
    /\ analyzer = NewAnalyzer2
    /\ aTodo = {}
    /\ NoLatencyComp
    /\ opts \in CollectorOptsSet
    /\ processors = <<>>
    /\ nodeIdx = 1
    /\ connectors = <<>>

SpecCollector == InitCollector /\ [][NextCollector]_vars

(***************************************************************************)
(* Properties.                                                             *)
(***************************************************************************)
Sorted(out) == \A i, j \in 1..Len(out) : i < j => out[i].Timestamp <= out[j].Timestamp
TimesWritten(out, k) == Cardinality({i \in 1..Len(out) : out[i].ref = k})
Included(entry) == entry.IncludedAtBlockHeight # 0

\* the hashes in column index 1 of the supplied already-known files, lowercased
BlacklistHashes(files) ==
    UNION {KnownHashesOfRecords(files[i].records) : i \in 1..Len(files)}

\* position of a hash in ascending order
HashRank(h) == CHOOSE i \in 1..Len(KeyPool) : KeyPool[i] = h

\* C1 as claimed: every entry LoadTransactionCSVFiles returns has the minimum
\* timestamp over all the lines read that carry its hash, the lines before the
\* one it was decoded from and the lines whose payload failed to decode included.
C1_MinOverAllLines ==
    pc = "loaded" => \A k \in DOMAIN txs : txs[k].Timestamp = Min(carried[k])

\* C1 as amended: every entry LoadTransactionCSVFiles returns has the minimum
\* timestamp over the line it was decoded from and the lines carrying its hash
\* that were read after that one.
C1_MinSinceStored ==
    pc = "loaded" =>
        \A k \in DOMAIN txs : counted[k] # {} /\ txs[k].Timestamp = Min(counted[k])

\* C1's case: an entry whose hash was carried by a line that failed to decode
\* and, once stored, by a duplicate with another timestamp.
C1_Witness ==
    /\ pc = "loaded"
    /\ \E k \in DOMAIN txs :
          /\ Cardinality(counted[k]) >= 2
          /\ carried[k] # counted[k]
          /\ txs[k].Timestamp # Min(carried[k])

\* C2: no two rows of the merge output carry the same hash field.
C2_UniqueOutputHash ==
    /\ \A i, j \in 1..Len(parquet) : parquet[i].Hash = parquet[j].Hash => i = j
    /\ \A i, j \in 1..Len(csvMeta) : csvMeta[i].Hash = csvMeta[j].Hash => i = j

\* C3: no row of the merge output belongs to an entry whose hash (the lowercased
\* hash column it was loaded under) appears in column index 1 of any supplied
\* already-known metadata file.
C3_NoBlacklistedOutput ==
    \A i \in 1..Len(parquet) : parquet[i].ref \notin BlacklistHashes(knownTxsFiles)

\* a file named on the command line is missing or cannot be opened, or a
\* timestamp is not a number
ConfigError ==
    \/ \E i \in 1..Len(knownTxsFiles) : knownTxsFiles[i].status = "missing"
    \/ \E i \in 1..Len(inputFiles) : inputFiles[i] = "missing"
    \/ loadFault

\* C9: after a configuration error the merge aborts: it does not go on to the
\* later phases and no output file is created.
C9_FatalBeforeOutput ==
    ConfigError => created = {} /\ pc \in {"start", "load", "loaded", "fatal"}

\* C4: updateInclusionStatus never blocks forever: until it returns, the driver
\* or a worker can take a step.
C4_NeverBlocks == pc = "annotate" => ENABLED NextAnnotate

\* a step of worker w
WorkerStep(w) ==
    WorkerDial(w) \/ WorkerDialFatal(w) \/ Dequeue(w) \/ Update(w) \/ Respond(w)

\* C10: once updateInclusionStatus has returned, no worker is blocked on the
\* inbound channel: each has left its range loop or can still take a step.
C10_WorkersExit ==
    pc = "sort" => \A w \in 1..workers : wpc[w] = "exited" \/ ENABLED WorkerStep(w)

\* C5: the rows written to the parquet file and to the metadata CSV are
\* non-decreasing in timestamp.
C5_OutputSorted == Sorted(parquet) /\ Sorted(csvMeta) /\ Sorted(csvTxs)

\* C5's case: all rows written, an outlier skipped between rows of different
\* timestamps.
C5_Witness ==
    /\ pc = "done"
    /\ Len(parquet) >= 2
    /\ parquet[1].Timestamp < parquet[Len(parquet)].Timestamp
    /\ Len(parquet) < Len(txsSlice)

\* C6: rows of equal timestamp are written in ascending order of hash.
C6_TieBreakByHash ==
    \A i, j \in 1..Len(parquet) :
        (i < j /\ parquet[i].Timestamp = parquet[j].Timestamp)
            => HashRank(parquet[i].Hash) < HashRank(parquet[j].Hash)

C8_SourcesOrdered ==
    \A k \in srcDone :
        LET s == txs[k].Sources
            m == IF k \in DOMAIN sourcelog THEN sourcelog[k] ELSE EmptyMap
        IN /\ Len(s) = Cardinality(DOMAIN m)
           /\ {s[i] : i \in 1..Len(s)} = DOMAIN m
           /\ \A i, j \in 1..Len(s) : i < j => m[s[i]] <= m[s[j]]

\* C8's case: a transaction with three sources of two timestamps, and one whose
\* hash is not in the sourcelog.
C8_Witness ==
    /\ srcDone = DOMAIN txs
    /\ \E k \in srcDone :
          /\ Len(txs[k].Sources) = 3
          /\ sourcelog[k][txs[k].Sources[1]] < sourcelog[k][txs[k].Sources[3]]
    /\ \E k \in srcDone : k \notin DOMAIN sourcelog /\ txs[k].Sources = <<>>

\* C11: the length test is on the record's bytes: a line whose record has
\* fewer than 66 bytes (65, say) is skipped and leaves the map as it was,
\* a line whose record has 66 bytes or more is attempted (split, parsed,
\* decoded), and a line that does not have 3 fields is skipped.
C11_RecordLengthBoundary ==
    [][\A l \in Lines : ReadLine(l) =>
          /\ l.rec < MinLineLen => txs' = txs
          /\ l.rec >= MinLineLen => txs' = AttemptLine(txs, prevKnownTxs, l)
          /\ Len(l.items) # 3 => txs' = txs]_vars

\* the entries latencyComp compares for the pair (src, ref): included on chain
\* and seen by both
SharedIncluded ==
    {k \in DOMAIN txs : Included(txs[k]) /\ HasSource(txs[k], src) /\ HasSource(txs[k], ref)}

\* D of an entry: how long after the source the reference saw it
Delta(k) == sourcelog[k][ref] - sourcelog[k][src]

SourceFirst == {k \in SharedIncluded : Delta(k) > 0}
ReferenceFirst == {k \in SharedIncluded : Delta(k) < 0}
SameTime == {k \in SharedIncluded : Delta(k) = 0}
Abs(n) == IF n < 0 THEN -n ELSE n

\* the histogram that holds |D| of each of the entries once
RECURSIVE HistogramOf(_)
HistogramOf(entries) ==
    IF entries = {} THEN EmptyBag
    ELSE LET k == CHOOSE k \in entries : TRUE
         IN HistogramOf(entries \ {k}) (+) SetToBag({CountsIndexFor(Abs(Delta(k)))})

\* C12 as stated: the population of latencyComp is the entries included on
\* chain whose sources hold both tags; each of them with D > 0 is recorded
\* once as D in the source-first histogram, with D < 0 once as -D in the
\* reference-first histogram, with D = 0 in neither, so the two counts and
\* the number of entries with D = 0 add up to the shared-included total.
C12_EveryDeltaRecorded ==
    pc = "lcdone" =>
        /\ totalSeenByBoth = Cardinality(SharedIncluded)
        /\ srcH = HistogramOf(SourceFirst)
        /\ refH = HistogramOf(ReferenceFirst)
        /\ BagCardinality(srcH) + BagCardinality(refH) + Cardinality(SameTime)
             = totalSeenByBoth

\* C12, amended: as above for every D the histogram can hold; an entry whose
\* |D| is beyond the histogram is in the total and in neither histogram, so
\* the two counts, the number with D = 0 and the number beyond the histogram
\* add up to the shared-included total.
C12_TrackableDeltaRecorded ==
    pc = "lcdone" =>
        /\ totalSeenByBoth = Cardinality(SharedIncluded)
        /\ srcH = HistogramOf({k \in SourceFirst : Trackable(Delta(k))})
        /\ refH = HistogramOf({k \in ReferenceFirst : Trackable(-Delta(k))})
        /\ BagCardinality(srcH) + BagCardinality(refH) + Cardinality(SameTime)
             + Cardinality({k \in SharedIncluded : ~Trackable(Abs(Delta(k)))})
             = totalSeenByBoth

\* a comparison with one entry recorded, one at the same time and one beyond
\* the histogram
C12_Witness ==
    /\ pc = "lcdone"
    /\ \E k \in SharedIncluded : Delta(k) # 0 /\ Trackable(Abs(Delta(k)))
    /\ \E k \in SharedIncluded : ~Trackable(Abs(Delta(k)))
    /\ \E k \in DOMAIN txs \ SharedIncluded : Len(txs[k].Sources) > 1
    /\ BagCardinality(srcH) + BagCardinality(refH) = 1
    /\ totalSeenByBoth = 2

\* the sum of the values of a function
RECURSIVE Sum(_)
Sum(f) ==
    IF DOMAIN f = {} THEN 0
    ELSE LET x == CHOOSE x \in DOMAIN f : TRUE
         IN f[x] + Sum([y \in DOMAIN f \ {x} |-> f[y]])

\* the entries whose sources contain s
SeenBy(s) == {k \in DOMAIN txs : HasSource(txs[k], s)}

\* C13: after Analyzer2.init, for every source the per-source count is the
\* number of entries whose sources contain it and is on-chain count plus
\* not-included count; exclusive orderflow is the number of entries with
\* exactly one source and is the sum over the sources of exclusive included
\* plus exclusive not-included; included plus not-included is the number of
\* unique transactions.
C13_AnalyzerCounts ==
    pc = "ready" =>
        /\ \A s \in Sources :
             /\ analyzer.nTransactionsPerSource[s] = Cardinality(SeenBy(s))
             /\ analyzer.nTransactionsPerSource[s]
                  = analyzer.nTxOnChainBySource[s] + analyzer.nTxNotOnChainBySource[s]
             /\ analyzer.nTxOnChainBySource[s]
                  = Cardinality({k \in SeenBy(s) : Included(txs[k])})
        /\ analyzer.nExclusiveOrderflow
             = Cardinality({k \in DOMAIN txs : Len(txs[k].Sources) = 1})
        /\ analyzer.nExclusiveOrderflow
             = Sum([s \in Sources |-> analyzer.nTxExclusiveIncluded[s][TRUE]
                                       + analyzer.nTxExclusiveIncluded[s][FALSE]])
        /\ analyzer.nExclusiveOrderflow
             = analyzer.nTxExclusiveIncludedCnt + analyzer.nTxExclusiveNotIncludedCnt
        /\ analyzer.nIncluded + analyzer.nNotIncluded = analyzer.nUniqueTransactions
        /\ analyzer.nUniqueTransactions = Cardinality(DOMAIN txs)
        /\ analyzer.nIncluded = Cardinality({k \in DOMAIN txs : Included(txs[k])})

\* an analyzer that counted a source with an entry on chain and one not, an
\* exclusive entry, an entry with several sources and one with none
C13_Witness ==
    /\ pc = "ready"
    /\ \E s \in Sources : /\ analyzer.nTxOnChainBySource[s] >= 1
                           /\ analyzer.nTxNotOnChainBySource[s] >= 1
    /\ analyzer.nExclusiveOrderflow = 1
    /\ \E k \in DOMAIN txs : Len(txs[k].Sources) > 1
    /\ \E k \in DOMAIN txs : Len(txs[k].Sources) = 0

\* the driver has sent the entry on txC
Enqueued(k) == pc = "annotate" /\ k \in DOMAIN txs \ toSend

\* no entry is updated by two workers or twice, nor signalled before its update
AtMostOnce ==
    \A k \in Keys : Len(updatedBy[k]) <= 1 /\ signalled[k] <= Len(updatedBy[k])

\* when updateInclusionStatus returns, every entry was updated once and
\* signalled once
ExactlyOnceAtReturn ==
    pc = "sort" => \A k \in DOMAIN txs : Len(updatedBy[k]) = 1 /\ signalled[k] = 1

\* C14: under every interleaving of the workers, each entry the driver
\* enqueued is dequeued and updated by exactly one worker and gives exactly
\* one completion signal, error or nil, on the response channel; no entry is
\* processed by two workers and none is skipped, also after an error response
\* (short of a worker that cannot reach the node, which ends the process).
C14_ExactlyOnce ==
    /\ []AtMostOnce
    /\ \A k \in Keys :
          Enqueued(k) ~> (pc = "fatal" \/ (Len(updatedBy[k]) = 1 /\ signalled[k] = 1))

\* the variant a connection is: the Go type its constructor returns (Start
\* calls no constructor of a connection type for vendor B)
VariantOf(conn) ==
    CASE conn.type = "NodeConnection" -> "PeerNode"
      [] conn.type = "BlxNodeConnection" -> "VendorA"
      [] conn.type = "ChainboundNodeConnection" -> "VendorC"

\* the credential configured for a vendor
CredentialOf(vendor) ==
    CASE vendor = "VendorA" -> opts.BloxrouteAuthToken
      [] vendor = "VendorB" -> opts.EdenAuthToken
      [] vendor = "VendorC" -> opts.ChainboundAPIKey

ConnectorsOf(variant) == {i \in 1..Len(connectors) : VariantOf(connectors[i]) = variant}

\* one processor, and every connection publishes into its channel
OneFanIn ==
    /\ Len(processors) = 1
    /\ \A i \in 1..Len(connectors) : connectors[i].txC = processors[1]

\* one peer-node connection per configured node, in order
OnePerNode ==
    /\ Cardinality(ConnectorsOf("PeerNode")) = Len(opts.Nodes)
    /\ \A i \in 1..Len(opts.Nodes) :
          VariantOf(connectors[i]) = "PeerNode" /\ connectors[i].url = opts.Nodes[i]

\* C15: when Start returns there is exactly one live processor and every
\* connection started publishes into its one queue; there is one peer-node
\* connection per configured node; and for each of vendor A, B and C a
\* connection of that vendor's own variant is started if and only if the
\* vendor's credential is not empty, and it carries that vendor's credential.
C15_CollectorWiring ==
    pc = "collecting" =>
        /\ OneFanIn
        /\ OnePerNode
        /\ \A vendor \in {"VendorA", "VendorB", "VendorC"} :
              /\ CredentialOf(vendor) # "" <=> ConnectorsOf(vendor) # {}
              /\ Cardinality(ConnectorsOf(vendor)) <= 1
              /\ \A i \in ConnectorsOf(vendor) :
                    connectors[i].credential = CredentialOf(vendor)

=============================================================================
